---- MODULE Spec2Model ----
(***************************************************************************)
(* The terminal session relay of src/app/backend/handler/terminal.go:      *)
(* the session registry (terminalSessions), the binder                     *)
(* (handleTerminalSession, one task per SockJS connection) and the         *)
(* coordinator (WaitForTerminal, one goroutine per session).               *)
(*                                                                         *)
(* A step of the model is one statement that touches shared state: a       *)
(* registry access, a channel operation, a call of startProcess or Close.  *)
(* A registry write takes two steps (begin, end), so that an access by     *)
(* another task while the write is in progress is a visible step.          *)
(*                                                                         *)
(* Spec follows the handshake and the lifecycle of every session and takes *)
(* a stream as one step that returns a result.  StreamSpec follows one     *)
(* session and its connection through the stream as well: the Read and     *)
(* Next calls the stream makes on the TerminalSession.                     *)
(***************************************************************************)
EXTENDS Naturals, Sequences, FiniteSets

\* Bounds of the model.
NumSessions == 1
NumConns == 2
\* Messages taken from the connection that StreamSpec follows.
MaxMsgs == 3
\* len(p) of the buffer the stream passes to Read.
BufLen == 1
\* Capacity of sizeChan.
SizeChanCap == 1

\* The zero value: a nil sockjs.Session, a nil channel, the empty id.
Nil == 0

\* Ids issued by genTerminalSessionId; Nil stands for an id never issued.
SessionIds == 1..NumSessions
AllIds == {Nil} \cup SessionIds
\* SockJS connections.
Conns == 1..NumConns

\* validShells := []string{"bash", "sh"}
ValidShells == <<"bash", "sh">>
\* request.QueryParameter("shell")
RequestShells == {"bash", "sh", ""}

\* A nil error.
NoErr == "nil"
\* err.Error() of a failed startProcess of cmd: the executor could not start
\* the command, or the stream ended with an error.
StartError(cmd) == IF cmd = "bash" THEN "bash: cannot start" ELSE "sh: cannot start"
StreamError(cmd) == IF cmd = "bash" THEN "bash: stream error" ELSE "sh: stream error"
LaunchResults(cmd) == {NoErr, StartError(cmd), StreamError(cmd)}
AllLaunchResults == UNION {LaunchResults(ValidShells[i]) : i \in 1..Len(ValidShells)}

\* The first message of a connection, as session.Recv and json.Unmarshal see it.
HandshakeOps == {"bind", "stdin"}
FirstMessages ==
    {[kind |-> "recverr", Op |-> "", SessionID |-> Nil],
     [kind |-> "badjson", Op |-> "", SessionID |-> Nil]}
    \cup {[kind |-> "json", Op |-> o, SessionID |-> i] : o \in HandshakeOps, i \in AllIds}

\* The session and the connection that StreamSpec follows.
StreamId == CHOOSE s \in SessionIds : \A x \in SessionIds : s <= x
StreamConn == CHOOSE c \in Conns : \A x \in Conns : c <= x

\* Bytes are numbers; the data of a stdin message is 1, 2, ..., n.
DataOf(n) == [i \in 1..n |-> i]
StdinData == {DataOf(n) : n \in 1..(BufLen + 1)}
\* Rows and Cols of the resize messages.
Sizes == {[Rows |-> 24, Cols |-> 80], [Rows |-> 50, Cols |-> 132]}
\* msg.Op values that Read has no case for.
OtherOps == {"bind", "stdout", "toast", ""}

\* A TerminalMessage in full; a message that was not decoded has zero fields.
Message(kind, op, id, data, rows, cols) ==
    [kind |-> kind, Op |-> op, SessionID |-> id, Data |-> data, Rows |-> rows, Cols |-> cols]
\* What Read can get from t.sockJSSession.Recv().
ReadMessages ==
    {Message("recverr", "", Nil, <<>>, 0, 0), Message("badjson", "", Nil, <<>>, 0, 0)}
    \cup {Message("json", "stdin", Nil, d, 0, 0) : d \in StdinData}
    \cup {Message("json", "resize", Nil, <<>>, z.Rows, z.Cols) : z \in Sizes}
    \cup {Message("json", o, Nil, <<>>, 0, 0) : o \in OtherOps}

VARIABLES
    terminalSessions,   \* the registry: session id -> TerminalSession value
    boundClosed,        \* boundClosed[ch]: the bound channel made for session ch is closed
    signals,            \* signals[ch]: values received from that channel
    hpc,                \* request path of each session id
    shell,              \* the shell query parameter of each session's request
    wpc,                \* WaitForTerminal goroutine of each session id
    wchan,              \* the channel its select waits on
    werr,               \* its err variable
    launches,           \* startProcess calls of each coordinator
    closes,             \* Close calls of each coordinator
    events,             \* what each coordinator did, in order
    bpc,                \* handleTerminalSession task of each connection
    bmsg,               \* its msg
    blocal,             \* its terminalSession
    outbox,             \* frames sent to each connection
    crashed,            \* the process ended with a fatal error or an unrecovered panic
    log,                \* what was received from StreamConn, in order, by whom, and what Read returned
    rd,                 \* the Read call of each stream of StreamId that has called Read
    buf,                \* the buffer p of each such stream
    sizeChan,           \* values in the sizeChan of StreamId
    sizesOut            \* values Next has returned, in order

\* The variables of the handshake and the lifecycle, and those of the stream.
mainVars == <<terminalSessions, boundClosed, signals, hpc, shell, wpc, wchan, werr,
              launches, closes, events, bpc, bmsg, blocal, outbox, crashed>>
streamVars == <<log, rd, buf, sizeChan, sizesOut>>
vars == <<terminalSessions, boundClosed, signals, hpc, shell, wpc, wchan, werr,
          launches, closes, events, bpc, bmsg, blocal, outbox, crashed,
          log, rd, buf, sizeChan, sizesOut>>

\* TerminalSession{}: the zero value, what a map read of an absent key gives.
ZeroSession == [id |-> Nil, bound |-> Nil, sockJSSession |-> Nil]
\* The session the request path registers: its id, a fresh bound channel, no connection.
NewSession(s) == [id |-> s, bound |-> s, sockJSSession |-> Nil]

\* A lookup whose ok is never false.
FoundIgnoringOk(m, id) == TRUE
\* v, ok := m[id]
Found(m, id) == id \in DOMAIN m
Lookup(m, id) == IF id \in DOMAIN m THEN m[id] ELSE ZeroSession
\* m[k] = v
MapPut(m, k, v) == [i \in DOMAIN m \cup {k} |-> IF i = k THEN v ELSE m[i]]

\* terminalSession.sockJSSession = session
Attach(ts, session) == [ts EXCEPT !.sockJSSession = session]

isValidShell(validShells, sh) == \E i \in 1..Len(validShells) : validShells[i] = sh

NoMsg == [kind |-> "none", Op |-> "", SessionID |-> Nil]

\* No stream has started: nothing received, no Read called, an empty sizeChan.
NoStream ==
    /\ log = <<>>
    /\ rd = [i \in {} |-> [pc |-> "idle", k |-> 0]]
    /\ buf = [i \in {} |-> <<>>]
    /\ sizeChan = <<>>
    /\ sizesOut = <<>>

Init ==
    /\ terminalSessions = [i \in {} |-> ZeroSession]
    /\ boundClosed = [s \in SessionIds |-> FALSE]
    /\ signals = [s \in SessionIds |-> 0]
    /\ hpc = [s \in SessionIds |-> "idle"]
    /\ shell = [s \in SessionIds |-> ""]
    /\ wpc = [s \in SessionIds |-> "idle"]
    /\ wchan = [s \in SessionIds |-> Nil]
    /\ werr = [s \in SessionIds |-> NoErr]
    /\ launches = [s \in SessionIds |-> <<>>]
    /\ closes = [s \in SessionIds |-> <<>>]
    /\ events = [s \in SessionIds |-> <<>>]
    /\ bpc = [c \in Conns |-> "new"]
    /\ bmsg = [c \in Conns |-> NoMsg]
    /\ blocal = [c \in Conns |-> ZeroSession]
    /\ outbox = [c \in Conns |-> <<>>]
    /\ crashed = FALSE
    /\ NoStream


(***************************************************************************)
(* The registry is a plain Go map with no lock.  A task is in the middle   *)
(* of a write between the begin and the end step of the write.             *)
(***************************************************************************)
MidWrite ==
    {<<"req", s>> : s \in {x \in DOMAIN hpc : hpc[x] = "writing"}}
    \cup {<<"bind", c>> : c \in {x \in Conns : bpc[x] = "L174w"}}

\* Program points whose next statement reads the registry.
WaitReadPcs == {"L254", "L255", "launch", "L275", "L279"}
\* The tasks whose next statement accesses the registry.
AtAccess ==
    {<<"wait", s>> : s \in {x \in DOMAIN wpc : wpc[x] \in WaitReadPcs}}
    \cup {<<"bind", c>> : c \in {x \in Conns : bpc[x] \in {"L167", "L174"}}}

\* An access that overlaps another task's write.
Racing(t) == MidWrite \ {t} # {}

(***************************************************************************)
(* The request path (handleExecShell): registers the session and starts    *)
(* WaitForTerminal as a goroutine.                                         *)
(***************************************************************************)
RegisterBegin(s, sh) ==
    /\ ~crashed
    /\ hpc[s] = "idle"
    /\ hpc' = [hpc EXCEPT ![s] = "writing"]
    /\ shell' = [shell EXCEPT ![s] = sh]
    /\ UNCHANGED <<terminalSessions, boundClosed, signals, wpc, wchan, werr,
                   launches, closes, events, bpc, bmsg, blocal, outbox, crashed,
                   log, rd, buf, sizeChan, sizesOut>>

RegisterEnd(s) ==
    /\ ~crashed
    /\ hpc[s] = "writing"
    /\ terminalSessions' = MapPut(terminalSessions, s, NewSession(s))
    /\ hpc' = [hpc EXCEPT ![s] = "done"]
    /\ wpc' = [wpc EXCEPT ![s] = "L254"]
    /\ UNCHANGED <<boundClosed, signals, shell, wchan, werr, launches, closes,
                   events, bpc, bmsg, blocal, outbox, crashed,
                   log, rd, buf, sizeChan, sizesOut>>

(***************************************************************************)
(* WaitForTerminal                                                         *)
(***************************************************************************)
\* The command of the next startProcess call: the requested shell when it is
\* valid, else the shell the fallback loop has come to.
TestShellIndex(s) == Len(launches[s]) + 1
Command(s) ==
    IF isValidShell(ValidShells, shell[s]) THEN shell[s]
    ELSE ValidShells[TestShellIndex(s)]

\* if err != nil { Close(2, ...); return }; Close(1, ...)
AfterLoop(err) == IF err # NoErr THEN "L275" ELSE "L279"

\* A coordinator that runs the fallback loop for a valid shell too.
AfterStartAlwaysLoop(valid, err, idx) ==
    IF err = NoErr THEN AfterLoop(err)
    ELSE IF idx < Len(ValidShells) THEN "launch"
    ELSE AfterLoop(err)

\* Where the coordinator goes when startProcess has returned err: past the
\* if/else when the shell was valid, when the loop breaks or when it has run out.
AfterStart(valid, err, idx) ==
    IF valid THEN AfterLoop(err)
    ELSE IF err = NoErr THEN AfterLoop(err)
    ELSE IF idx < Len(ValidShells) THEN "launch"
    ELSE AfterLoop(err)

\* Close(2, err.Error()) with no return after it: control falls through to
\* the Close of line 279.
AfterL275NoReturn == "L279"
\* The return after Close(2, err.Error()).
AfterL275 == "done"

\* Close calls that report a normal exit whatever happened.
CloseArgsAlwaysExited(line, err) == [status |-> 1, reason |-> "Process exited"]
\* The arguments of the Close call at a program point.
CloseArgs(line, err) ==
    IF line = "L275" THEN [status |-> 2, reason |-> err]
    ELSE [status |-> 1, reason |-> "Process exited"]

\* A registry whose read of an absent key stores the zero value under it.
WaitSelectInserting(s) ==
    /\ ~crashed
    /\ wpc[s] = "L254"
    /\ wchan' = [wchan EXCEPT ![s] = Lookup(terminalSessions, s).bound]
    /\ wpc' = [wpc EXCEPT ![s] = "select"]
    /\ terminalSessions' =
            IF Found(terminalSessions, s) THEN terminalSessions
            ELSE MapPut(terminalSessions, s, ZeroSession)
    /\ UNCHANGED <<boundClosed, signals, hpc, shell, werr,
                   launches, closes, events, bpc, bmsg, blocal, outbox, crashed,
                   log, rd, buf, sizeChan, sizesOut>>

\* case <-terminalSessions[sessionId].bound: the channel operand is read once.
WaitSelect(s) ==
    /\ ~crashed
    /\ wpc[s] = "L254"
    /\ wchan' = [wchan EXCEPT ![s] = Lookup(terminalSessions, s).bound]
    /\ wpc' = [wpc EXCEPT ![s] = "select"]
    /\ UNCHANGED <<terminalSessions, boundClosed, signals, hpc, shell, werr,
                   launches, closes, events, bpc, bmsg, blocal, outbox, crashed,
                   log, rd, buf, sizeChan, sizesOut>>

\* The unbuffered channel hands the binder's value to the waiting coordinator:
\* terminalSession.bound <- nil meets <-terminalSessions[sessionId].bound.
BoundRendezvous(c, s) ==
    /\ ~crashed
    /\ bpc[c] = "L173"
    /\ wpc[s] = "select"
    /\ wchan[s] # Nil
    /\ blocal[c].bound = wchan[s]
    /\ ~boundClosed[wchan[s]]
    /\ signals' = [signals EXCEPT ![wchan[s]] = @ + 1]
    /\ events' = [events EXCEPT ![s] = Append(@, "bound")]
    /\ bpc' = [bpc EXCEPT ![c] = "L174"]
    /\ wpc' = [wpc EXCEPT ![s] = "L255"]
    /\ UNCHANGED <<terminalSessions, boundClosed, hpc, shell, wchan, werr,
                   launches, closes, bmsg, blocal, outbox, crashed,
                   log, rd, buf, sizeChan, sizesOut>>

\* close(terminalSessions[sessionId].bound).  The channel is the one the
\* select received from and nobody else closes it, so it is open and not nil.
CloseBound(s) ==
    /\ ~crashed
    /\ wpc[s] = "L255"
    /\ LET ch == Lookup(terminalSessions, s).bound IN
        /\ ch # Nil
        /\ ~boundClosed[ch]
        /\ boundClosed' = [boundClosed EXCEPT ![ch] = TRUE]
    /\ wpc' = [wpc EXCEPT ![s] = "launch"]
    /\ UNCHANGED <<terminalSessions, signals, hpc, shell, wchan, werr,
                   launches, closes, events, bpc, bmsg, blocal, outbox, crashed,
                   log, rd, buf, sizeChan, sizesOut>>

\* startProcess(k8sClient, cfg, request, cmd, terminalSessions[sessionId]):
\* the session is passed by value, as the registry holds it at the call.
StartProcess(s) ==
    /\ ~crashed
    /\ wpc[s] = "launch"
    /\ launches' = [launches EXCEPT ![s] =
            Append(@, [cmd |-> Command(s),
                       conn |-> Lookup(terminalSessions, s).sockJSSession,
                       res |-> "running"])]
    /\ events' = [events EXCEPT ![s] = Append(@, "launch")]
    /\ wpc' = [wpc EXCEPT ![s] = "stream"]
    /\ UNCHANGED <<terminalSessions, boundClosed, signals, hpc, shell, wchan, werr,
                   closes, bpc, bmsg, blocal, outbox, crashed,
                   log, rd, buf, sizeChan, sizesOut>>

\* A coordinator whose err keeps the first error it was given.
ProcessReturnKeepsFirstError(s, r) ==
    /\ ~crashed
    /\ wpc[s] = "stream"
    /\ LET n == Len(launches[s]) IN
        /\ r \in LaunchResults(launches[s][n].cmd)
        /\ launches' = [launches EXCEPT ![s][n].res = r]
        /\ wpc' = [wpc EXCEPT ![s] =
                AfterStart(isValidShell(ValidShells, shell[s]), r, n)]
    /\ werr' = [werr EXCEPT ![s] = IF @ # NoErr /\ r # NoErr THEN @ ELSE r]
    /\ events' = [events EXCEPT ![s] = Append(@, "return")]
    /\ UNCHANGED <<terminalSessions, boundClosed, signals, hpc, shell, wchan,
                   closes, bpc, bmsg, blocal, outbox, crashed,
                   log, rd, buf, sizeChan, sizesOut>>

\* startProcess returns nil (the process exited) or an error.
ProcessReturn(s, r) ==
    /\ ~crashed
    /\ wpc[s] = "stream"
    /\ LET n == Len(launches[s]) IN
        /\ r \in LaunchResults(launches[s][n].cmd)
        /\ launches' = [launches EXCEPT ![s][n].res = r]
        /\ wpc' = [wpc EXCEPT ![s] =
                AfterStart(isValidShell(ValidShells, shell[s]), r, n)]
    /\ werr' = [werr EXCEPT ![s] = r]
    /\ events' = [events EXCEPT ![s] = Append(@, "return")]
    /\ UNCHANGED <<terminalSessions, boundClosed, signals, hpc, shell, wchan,
                   closes, bpc, bmsg, blocal, outbox, crashed,
                   log, rd, buf, sizeChan, sizesOut>>

\* The stream calls Read or Write of a session whose sockJSSession is nil:
\* a nil dereference in a goroutine nobody recovers.
ProcessPanic(s) ==
    /\ ~crashed
    /\ wpc[s] = "stream"
    /\ LET n == Len(launches[s]) IN
        /\ launches[s][n].conn = Nil
        /\ launches' = [launches EXCEPT ![s][n].res = "panic"]
    /\ wpc' = [wpc EXCEPT ![s] = "panic"]
    /\ crashed' = TRUE
    /\ UNCHANGED <<terminalSessions, boundClosed, signals, hpc, shell, wchan, werr,
                   closes, events, bpc, bmsg, blocal, outbox,
                   log, rd, buf, sizeChan, sizesOut>>

\* terminalSessions[sessionId].Close(status, reason): t.sockJSSession.Close(...)
\* On a nil sockJSSession the call panics in the coordinator's goroutine.
CallClose(s) ==
    /\ ~crashed
    /\ wpc[s] \in {"L275", "L279"}
    /\ LET t == Lookup(terminalSessions, s)
           a == CloseArgs(wpc[s], werr[s])
       IN
        /\ closes' = [closes EXCEPT ![s] =
                Append(@, [status |-> a.status, reason |-> a.reason,
                           conn |-> t.sockJSSession])]
        /\ IF t.sockJSSession = Nil
           THEN /\ wpc' = [wpc EXCEPT ![s] = "panic"]
                /\ crashed' = TRUE
                /\ outbox' = outbox
           ELSE /\ wpc' = [wpc EXCEPT ![s] =
                        IF wpc[s] = "L275" THEN AfterL275 ELSE "done"]
                /\ crashed' = crashed
                /\ outbox' = [outbox EXCEPT ![t.sockJSSession] =
                        Append(@, <<"close", a.status, a.reason>>)]
    /\ events' = [events EXCEPT ![s] = Append(@, "close")]
    /\ UNCHANGED <<terminalSessions, boundClosed, signals, hpc, shell, wchan, werr,
                   launches, bpc, bmsg, blocal,
                   log, rd, buf, sizeChan, sizesOut>>


(***************************************************************************)
(* handleTerminalSession                                                   *)
(***************************************************************************)
\* A handler that waits for another message when the first is not a bind.
AfterRecvRetry(m) ==
    IF m.kind = "recverr" THEN "ret154"
    ELSE IF m.kind = "badjson" THEN "ret159"
    ELSE IF m.Op # "bind" THEN "new"
    ELSE "L167"

\* Where the binder goes with the first message m: the returns of lines 154,
\* 159 and 164, or on to the registry lookup.
AfterRecv(m) ==
    IF m.kind = "recverr" THEN "ret154"
    ELSE IF m.kind = "badjson" THEN "ret159"
    ELSE IF m.Op # "bind" THEN "ret164"
    ELSE "L167"

\* A handler that attaches the connection to the session the message names
\* before it has looked at msg.Op.
RecvAttachFirst(c, m) ==
    /\ ~crashed
    /\ bpc[c] = "new"
    /\ bmsg' = [bmsg EXCEPT ![c] = IF AfterRecv(m) = "L167" THEN m ELSE NoMsg]
    /\ bpc' = [bpc EXCEPT ![c] = AfterRecv(m)]
    /\ terminalSessions' =
            IF m.kind = "json" /\ Found(terminalSessions, m.SessionID)
            THEN MapPut(terminalSessions, m.SessionID,
                        Attach(Lookup(terminalSessions, m.SessionID), c))
            ELSE terminalSessions
    /\ UNCHANGED <<boundClosed, signals, hpc, shell, wpc, wchan,
                   werr, launches, closes, events, blocal, outbox, crashed,
                   log, rd, buf, sizeChan, sizesOut>>

\* session.Recv(), json.Unmarshal and the check of msg.Op.  A message the
\* handler drops leaves nothing behind; msg is kept from a successful lookup on.
RecvMessage(c, m) ==
    /\ ~crashed
    /\ bpc[c] = "new"
    /\ bmsg' = [bmsg EXCEPT ![c] = IF AfterRecv(m) = "L167" THEN m ELSE NoMsg]
    /\ bpc' = [bpc EXCEPT ![c] = AfterRecv(m)]
    /\ UNCHANGED <<terminalSessions, boundClosed, signals, hpc, shell, wpc, wchan,
                   werr, launches, closes, events, blocal, outbox, crashed>>

\* The handshake of a connection whose stream the model does not follow.
Recv(c, m) == RecvMessage(c, m) /\ UNCHANGED streamVars

\* terminalSession, ok = terminalSessions[msg.SessionID]; the return of line
\* 169 when !ok, else terminalSession.sockJSSession = session.
BindLookup(c) ==
    /\ ~crashed
    /\ bpc[c] = "L167"
    /\ IF Found(terminalSessions, bmsg[c].SessionID)
       THEN /\ blocal' = [blocal EXCEPT ![c] =
                    Attach(Lookup(terminalSessions, bmsg[c].SessionID), c)]
            /\ bpc' = [bpc EXCEPT ![c] = "L173"]
            /\ bmsg' = bmsg
       ELSE /\ blocal' = blocal
            /\ bpc' = [bpc EXCEPT ![c] = "ret169"]
            /\ bmsg' = [bmsg EXCEPT ![c] = NoMsg]
    /\ UNCHANGED <<terminalSessions, boundClosed, signals, hpc, shell, wpc, wchan,
                   werr, launches, closes, events, outbox, crashed,
                   log, rd, buf, sizeChan, sizesOut>>

\* terminalSession.bound <- nil on a closed channel panics, also for a sender
\* that was blocked when the channel got closed.  The caller of the handler
\* decides whether the panic is recovered (the task alone ends) or ends the
\* process; the caller is not part of this file.
SendPanic(c, fatal) ==
    /\ ~crashed
    /\ bpc[c] = "L173"
    /\ blocal[c].bound # Nil
    /\ boundClosed[blocal[c].bound]
    /\ bpc' = [bpc EXCEPT ![c] = "panic"]
    /\ blocal' = [blocal EXCEPT ![c] = ZeroSession]
    /\ crashed' = fatal
    /\ UNCHANGED <<terminalSessions, boundClosed, signals, hpc, shell, wpc, wchan,
                   werr, launches, closes, events, bmsg, outbox,
                   log, rd, buf, sizeChan, sizesOut>>

\* terminalSessions[msg.SessionID] = terminalSession: the write begins ...
WriteBackBegin(c) ==
    /\ ~crashed
    /\ bpc[c] = "L174"
    /\ bpc' = [bpc EXCEPT ![c] = "L174w"]
    /\ UNCHANGED <<terminalSessions, boundClosed, signals, hpc, shell, wpc, wchan,
                   werr, launches, closes, events, bmsg, blocal, outbox, crashed,
                   log, rd, buf, sizeChan, sizesOut>>

\* ... and ends.
WriteBackEnd(c) ==
    /\ ~crashed
    /\ bpc[c] = "L174w"
    /\ terminalSessions' = MapPut(terminalSessions, bmsg[c].SessionID, blocal[c])
    /\ bpc' = [bpc EXCEPT ![c] = "ret175"]
    /\ blocal' = [blocal EXCEPT ![c] = ZeroSession]
    /\ UNCHANGED <<boundClosed, signals, hpc, shell, wpc, wchan, werr, launches,
                   closes, events, bmsg, outbox, crashed,
                   log, rd, buf, sizeChan, sizesOut>>

(***************************************************************************)
(* An unsynchronised access that overlaps a write is a data race.  The     *)
(* access just takes the value the map holds at its step (the actions      *)
(* above), or the runtime detects the race and ends the process ("fatal    *)
(* error: concurrent map read and map write", "concurrent map writes").    *)
(***************************************************************************)
RaceFatal ==
    /\ ~crashed
    /\ \/ \E t \in AtAccess : Racing(t)
       \/ Cardinality(MidWrite) > 1
    /\ crashed' = TRUE
    /\ UNCHANGED <<terminalSessions, boundClosed, signals, hpc, shell, wpc, wchan,
                   werr, launches, closes, events, bpc, bmsg, blocal, outbox,
                   log, rd, buf, sizeChan, sizesOut>>

\* What the environment does: a request arrives, a client's first message arrives.
Env ==
    \/ \E s \in SessionIds, sh \in RequestShells : RegisterBegin(s, sh)
    \/ \E c \in Conns, m \in FirstMessages : Recv(c, m)

\* The steps the tasks take on their own once they can.
Sys ==
    \/ \E s \in SessionIds : RegisterEnd(s)
    \/ \E s \in SessionIds : WaitSelect(s)
    \/ \E c \in Conns, s \in SessionIds : BoundRendezvous(c, s)
    \/ \E s \in SessionIds : CloseBound(s)
    \/ \E s \in SessionIds : StartProcess(s)
    \/ \E s \in SessionIds : \E r \in AllLaunchResults : ProcessReturn(s, r)
    \/ \E s \in SessionIds : CallClose(s)
    \/ \E c \in Conns : BindLookup(c)
    \/ \E c \in Conns, fatal \in BOOLEAN : SendPanic(c, fatal)
    \/ \E c \in Conns : WriteBackBegin(c)
    \/ \E c \in Conns : WriteBackEnd(c)

\* The failures a run may or may not meet.
Fault ==
    \/ \E s \in SessionIds : ProcessPanic(s)
    \/ RaceFatal

Next == Env \/ Sys \/ Fault

Spec == Init /\ [][Next]_vars

\* Every task that can take a step eventually takes one; requests and
\* connections arrive when they arrive, and a failure need not happen.
FairSpec == Spec /\ WF_vars(Sys)


(***************************************************************************)
(* The stream of a launch attempt (exec.Stream, line 209) calls Read in a  *)
(* loop to feed the process's stdin and Next in a loop to feed its         *)
(* terminal size, on the TerminalSession value startProcess was given.     *)
(* A message reaches the connection when somebody receives it; log keeps   *)
(* the messages in that order.  A Read that is blocked when its stream     *)
(* ends stays blocked and completes later ("FIXME: if the first shell      *)
(* fails then the first keyboard event is lost", line 265).                *)
(***************************************************************************)
Min(a, b) == IF a <= b THEN a ELSE b

\* A Read that ignores a message with an Op it has no case for.
ReadErrIgnoringUnknown(m) ==
    IF m.kind = "recverr" THEN "recv: session closed"
    ELSE IF m.kind = "badjson" THEN "json: cannot unmarshal"
    ELSE NoErr
\* The error Read returns for what Recv gave it: the error of Recv, the error
\* of json.Unmarshal, nil for stdin and resize, else "unknown message type".
ReadErr(m) ==
    IF m.kind = "recverr" THEN "recv: session closed"
    ELSE IF m.kind = "badjson" THEN "json: cannot unmarshal"
    ELSE IF m.Op \in {"stdin", "resize"} THEN NoErr
    ELSE "unknown message type"

\* copy(p, msg.Data): the number of bytes copied, and p afterwards.
CopyCount(p, data) == Min(Len(p), Len(data))
Copy(p, data) == [j \in 1..Len(p) |-> IF j <= Len(data) THEN data[j] ELSE p[j]]

\* The number of bytes Read returns.
ReadCount(m, p) ==
    IF ReadErr(m) = NoErr /\ m.Op = "stdin" THEN CopyCount(p, m.Data) ELSE 0

\* A positional literal with the fields the other way round.
TerminalSizeSwapped(m) == [Width |-> m.Rows, Height |-> m.Cols]
\* remotecommand.TerminalSize{msg.Cols, msg.Rows}: the fields are Width, Height.
TerminalSize(m) == [Width |-> m.Cols, Height |-> m.Rows]

\* The first message the binder gets, as a TerminalMessage in full.
Full(m) == Message(m.kind, m.Op, m.SessionID, <<>>, 0, 0)

\* Close was called on the connection: Recv fails from then on.
ServerClosed ==
    \E i \in DOMAIN closes[StreamId] : closes[StreamId][i].conn = StreamConn

\* The launch attempts, and whether the stream of attempt i is running.
Attempts == 1..Len(ValidShells)
Live(i) == i \in DOMAIN launches[StreamId] /\ launches[StreamId][i].res = "running"

\* The Read call of the stream of attempt i, and the buffer it passes: a
\* stream that has not called Read is idle and its buffer is zeroed.
ReadOf(i) == IF i \in DOMAIN rd THEN rd[i] ELSE [pc |-> "idle", k |-> 0]
BufOf(i) == IF i \in DOMAIN buf THEN buf[i] ELSE [j \in 1..BufLen |-> 0]

\* Where the stdin loop of attempt i is after a Read that returned err: it
\* calls Read again while its stream runs and Read gave no error.
AfterRead(i, err) == IF err = NoErr /\ Live(i) THEN "idle" ELSE "stop"

\* handleTerminalSession's session.Recv() on the connection StreamSpec follows.
StreamRecv(m) ==
    /\ Len(log) < MaxMsgs
    /\ RecvMessage(StreamConn, m)
    /\ log' = Append(log, [by |-> "binder", att |-> 0, msg |-> Full(m),
                           n |-> 0, err |-> NoErr])
    /\ UNCHANGED <<rd, buf, sizeChan, sizesOut>>

\* startProcess returns.  When NewExecutor failed (line 206) there was no
\* stream, so no Read was called in this attempt.
StreamReturn(r) ==
    /\ ProcessReturn(StreamId, r)
    /\ LET n == Len(launches[StreamId]) IN
        r = StartError(launches[StreamId][n].cmd) => n \notin DOMAIN rd

\* The stream of attempt i calls Read(p): t.sockJSSession.Recv() blocks.
ReadCall(i) ==
    /\ ~crashed
    /\ Live(i)
    /\ launches[StreamId][i].conn = StreamConn
    /\ ReadOf(i).pc = "idle"
    /\ rd' = MapPut(rd, i, [pc |-> "recv", k |-> 0])
    /\ buf' = MapPut(buf, i, BufOf(i))
    /\ UNCHANGED <<log, sizeChan, sizesOut>>
    /\ UNCHANGED mainVars

\* Recv returns m (or fails) and Read goes on to its return, or, for a
\* resize message, to the send on sizeChan.
ReadRecv(i, m) ==
    /\ ~crashed
    /\ ReadOf(i).pc = "recv"
    /\ Len(log) < MaxMsgs
    /\ ServerClosed => m.kind = "recverr"
    /\ IF ReadErr(m) = NoErr /\ m.Op = "resize"
       THEN /\ log' = Append(log, [by |-> "read", att |-> i, msg |-> m,
                                   n |-> 0, err |-> "pending"])
            /\ rd' = [rd EXCEPT ![i] = [pc |-> "send", k |-> Len(log) + 1]]
            /\ buf' = buf
       ELSE /\ log' = Append(log, [by |-> "read", att |-> i, msg |-> m,
                                   n |-> ReadCount(m, buf[i]), err |-> ReadErr(m)])
            /\ rd' = [rd EXCEPT ![i] = [pc |-> AfterRead(i, ReadErr(m)), k |-> 0]]
            /\ buf' = [buf EXCEPT ![i] =
                    IF ReadErr(m) = NoErr /\ m.Op = "stdin" THEN Copy(@, m.Data) ELSE @]
    /\ UNCHANGED <<sizeChan, sizesOut>>
    /\ UNCHANGED mainVars

\* t.sizeChan <- remotecommand.TerminalSize{msg.Cols, msg.Rows}; return 0, nil.
\* The send waits for room; senders that wait are served in the order they came.
ReadSend(i) ==
    /\ ~crashed
    /\ ReadOf(i).pc = "send"
    /\ Len(sizeChan) < SizeChanCap
    /\ \A j \in DOMAIN rd : rd[j].pc = "send" => rd[i].k <= rd[j].k
    /\ sizeChan' = Append(sizeChan, TerminalSize(log[rd[i].k].msg))
    /\ log' = [log EXCEPT ![rd[i].k].err = NoErr]
    /\ rd' = [rd EXCEPT ![i] = [pc |-> AfterRead(i, NoErr), k |-> 0]]
    /\ UNCHANGED <<buf, sizesOut>>
    /\ UNCHANGED mainVars

\* Next(): size := <-t.sizeChan; return &size.
NextSize ==
    /\ ~crashed
    /\ launches[StreamId] # <<>>
    /\ sizeChan # <<>>
    /\ sizesOut' = Append(sizesOut, Head(sizeChan))
    /\ sizeChan' = Tail(sizeChan)
    /\ UNCHANGED <<log, rd, buf>>
    /\ UNCHANGED mainVars

\* The steps of the session and the connection StreamSpec follows, and the
\* calls its streams make on the TerminalSession.
StreamNext ==
    \/ \E sh \in RequestShells : RegisterBegin(StreamId, sh)
    \/ RegisterEnd(StreamId)
    \/ WaitSelect(StreamId)
    \/ \E m \in FirstMessages : StreamRecv(m)
    \/ BindLookup(StreamConn)
    \/ BoundRendezvous(StreamConn, StreamId)
    \/ WriteBackBegin(StreamConn)
    \/ WriteBackEnd(StreamConn)
    \/ CloseBound(StreamId)
    \/ StartProcess(StreamId)
    \/ \E r \in AllLaunchResults : StreamReturn(r)
    \/ CallClose(StreamId)
    \/ ProcessPanic(StreamId)
    \/ RaceFatal
    \/ \E i \in Attempts : ReadCall(i)
    \/ \E i \in Attempts, m \in ReadMessages : ReadRecv(i, m)
    \/ \E i \in Attempts : ReadSend(i)
    \/ NextSize

StreamSpec == Init /\ [][StreamNext]_vars


(***************************************************************************)
(* The same program serving one session more than Spec does, so that two   *)
(* sessions are in progress at once.                                       *)
(***************************************************************************)
IsoIds == 1..(NumSessions + 1)
IsoFirstMessages ==
    {[kind |-> "recverr", Op |-> "", SessionID |-> Nil],
     [kind |-> "badjson", Op |-> "", SessionID |-> Nil]}
    \cup {[kind |-> "json", Op |-> o, SessionID |-> i] :
                o \in HandshakeOps, i \in {Nil} \cup IsoIds}

IsoInit ==
    /\ terminalSessions = [i \in {} |-> ZeroSession]
    /\ boundClosed = [s \in IsoIds |-> FALSE]
    /\ signals = [s \in IsoIds |-> 0]
    /\ hpc = [s \in IsoIds |-> "idle"]
    /\ shell = [s \in IsoIds |-> ""]
    /\ wpc = [s \in IsoIds |-> "idle"]
    /\ wchan = [s \in IsoIds |-> Nil]
    /\ werr = [s \in IsoIds |-> NoErr]
    /\ launches = [s \in IsoIds |-> <<>>]
    /\ closes = [s \in IsoIds |-> <<>>]
    /\ events = [s \in IsoIds |-> <<>>]
    /\ bpc = [c \in Conns |-> "new"]
    /\ bmsg = [c \in Conns |-> NoMsg]
    /\ blocal = [c \in Conns |-> ZeroSession]
    /\ outbox = [c \in Conns |-> <<>>]
    /\ crashed = FALSE
    /\ NoStream

IsoNext ==
    \/ \E s \in IsoIds, sh \in RequestShells : RegisterBegin(s, sh)
    \/ \E c \in Conns, m \in IsoFirstMessages : Recv(c, m)
    \/ \E s \in IsoIds : RegisterEnd(s)
    \/ \E s \in IsoIds : WaitSelect(s)
    \/ \E c \in Conns, s \in IsoIds : BoundRendezvous(c, s)
    \/ \E s \in IsoIds : CloseBound(s)
    \/ \E s \in IsoIds : StartProcess(s)
    \/ \E s \in IsoIds : \E r \in AllLaunchResults : ProcessReturn(s, r)
    \/ \E s \in IsoIds : CallClose(s)
    \/ \E c \in Conns : BindLookup(c)
    \/ \E c \in Conns, fatal \in BOOLEAN : SendPanic(c, fatal)
    \/ \E c \in Conns : WriteBackBegin(c)
    \/ \E c \in Conns : WriteBackEnd(c)
    \/ \E s \in IsoIds : ProcessPanic(s)
    \/ RaceFatal

IsoSpec == IsoInit /\ [][IsoNext]_vars


(***************************************************************************)
(* WaitForTerminal is an exported function: besides the request path, any  *)
(* caller can start it with an id the registry never held.                 *)
(***************************************************************************)
WaitForTerminalUnregistered(s, sh) ==
    /\ ~crashed
    /\ hpc[s] = "idle"
    /\ hpc' = [hpc EXCEPT ![s] = "never"]
    /\ shell' = [shell EXCEPT ![s] = sh]
    /\ wpc' = [wpc EXCEPT ![s] = "L254"]
    /\ UNCHANGED <<terminalSessions, boundClosed, signals, wchan, werr,
                   launches, closes, events, bpc, bmsg, blocal, outbox, crashed,
                   log, rd, buf, sizeChan, sizesOut>>

\* The first message of a connection is a bind here; what the binder does
\* with any other first message is in Spec.
BindMessages == {m \in FirstMessages : m.kind = "json" /\ m.Op = "bind"}

OrphanNext ==
    \/ \E s \in SessionIds, sh \in RequestShells : WaitForTerminalUnregistered(s, sh)
    \/ \E s \in SessionIds, sh \in RequestShells : RegisterBegin(s, sh)
    \/ \E c \in Conns, m \in BindMessages : Recv(c, m)
    \/ Sys
    \/ Fault

OrphanSpec == Init /\ [][OrphanNext]_vars


(***************************************************************************)
(* Properties                                                              *)
(***************************************************************************)
\* The connections whose bind found session s in the registry.
BindersOf(s) ==
    {c \in Conns : /\ bpc[c] \in {"L173", "L174", "L174w", "ret175", "panic"}
                   /\ bmsg[c].SessionID = s}

Last(q) == q[Len(q)]

\* C1: whenever the coordinator calls startProcess or Close, the session value
\* it read from the registry has the connection attached.
C1_ConnectionAttached ==
    \A s \in SessionIds :
        /\ \A i \in DOMAIN launches[s] : launches[s][i].conn # Nil
        /\ \A i \in DOMAIN closes[s] : closes[s][i].conn # Nil

\* C2: once the coordinator has closed session s, the registry holds no entry
\* for s.
C2_RemovedAfterClose ==
    \A s \in SessionIds : closes[s] # <<>> => s \notin DOMAIN terminalSessions

\* The connections the launcher and Close were given for session s.
UsedConns(s) ==
    ({launches[s][i].conn : i \in DOMAIN launches[s]}
        \cup {closes[s][i].conn : i \in DOMAIN closes[s]}) \ {Nil}

\* C3: when two binds with the id of a registered session s have arrived on two
\* connections and the program has come to rest, s is attached to exactly one
\* of the two; and the launcher is never given two different connections.
C3_SingleShotBinding ==
    \A s \in SessionIds :
        /\ Cardinality(UsedConns(s)) <= 1
        /\ (Cardinality(BindersOf(s)) >= 2 /\ ~ENABLED Next)
            => Lookup(terminalSessions, s).sockJSSession \in BindersOf(s)

\* C4: bound delivers at most one signal per session, and no bind attempt ends
\* in a panic.
C4_SecondBindRejected ==
    /\ \A s \in SessionIds : signals[s] <= 1
    /\ \A c \in Conns : bpc[c] # "panic"

\* The step is a registry access of task t.
AccessStep(t) ==
    \/ /\ t[1] = "wait"
       /\ wpc[t[2]] \in WaitReadPcs
       /\ wpc'[t[2]] # wpc[t[2]]
    \/ /\ t[1] = "bind"
       /\ bpc[t[2]] \in {"L167", "L174"}
       /\ bpc'[t[2]] # bpc[t[2]]
    \/ /\ t[1] = "req"
       /\ hpc[t[2]] = "idle"
       /\ hpc'[t[2]] = "writing"

Tasks ==
    {<<"wait", s>> : s \in SessionIds} \cup {<<"req", s>> : s \in SessionIds}
    \cup {<<"bind", c>> : c \in Conns}

\* C5: no task accesses the registry while another task is writing it.
C5_RegistryExclusive ==
    [][\A t \in Tasks : AccessStep(t) => ~Racing(t)]_vars

\* The number of entries of q that are e.
Count(q, e) == Cardinality({i \in DOMAIN q : q[i] = e})

\* C6: what the coordinator of a session does is, in order: receive bound,
\* then launch and have the launch return, one or more times, then Close, and
\* nothing after Close.
C6_LifecycleOrder ==
    \A s \in SessionIds :
        LET e == events[s] IN
        /\ \A i \in DOMAIN e :
            /\ e[i] = "bound" => i = 1 /\ signals[s] >= 1
            /\ e[i] = "launch" => i > 1 /\ e[i - 1] \in {"bound", "return"}
            /\ e[i] = "return" => i > 1 /\ e[i - 1] = "launch"
            /\ e[i] = "close" => i > 1 /\ e[i - 1] = "return" /\ i = Len(e)
        /\ Count(e, "launch") = Len(launches[s])
        /\ Count(e, "close") = Len(closes[s])
        /\ closes[s] # <<>> => \A i \in DOMAIN launches[s] : launches[s][i].res # "running"

\* A coordinator went through the fallback loop twice and closed.
C6_Witness ==
    \E s \in SessionIds :
        events[s] = <<"bound", "launch", "return", "launch", "return", "close">>

\* C7: Close is called at most once per session, once when the coordinator
\* has finished, with status 1 and "Process exited" when the last launch
\* returned nil and with status 2 and the error text when it returned an error.
C7_CloseByResult ==
    \A s \in SessionIds :
        /\ Len(closes[s]) <= 1
        /\ wpc[s] = "done" => Len(closes[s]) = 1
        /\ closes[s] # <<>> =>
            /\ launches[s] # <<>>
            /\ LET r == Last(launches[s]).res
                   k == closes[s][1]
               IN IF r = NoErr
                  THEN k.status = 1 /\ k.reason = "Process exited"
                  ELSE k.status = 2 /\ k.reason = r

\* A coordinator has finished after the fallback loop ran out: it closed with
\* status 2 and the error of sh, and the connection got that close frame.
C7_Witness ==
    \E s \in SessionIds :
        /\ wpc[s] = "done"
        /\ closes[s] # <<>>
        /\ closes[s][1].status = 2
        /\ closes[s][1].reason = "sh: cannot start"
        /\ outbox[closes[s][1].conn] = <<<<"close", 2, "sh: cannot start">>>>

\* A bind for the registered session s has arrived.
ValidBindArrived(s) ==
    \/ BindersOf(s) # {}
    \/ \E c \in Conns : /\ bpc[c] = "L167"
                        /\ bmsg[c].SessionID = s
                        /\ s \in DOMAIN terminalSessions

\* C8: a registered session for which no valid bind ever arrives is eventually
\* given up: its coordinator ends and its entry is removed.
C8_BoundedWait ==
    \A s \in SessionIds :
        (hpc[s] = "done") ~>
            (\/ ValidBindArrived(s)
             \/ wpc[s] = "done" /\ s \notin DOMAIN terminalSessions)

\* C9: a session for which a valid bind arrived is eventually closed: Close is
\* called on its connection and the coordinator ends.
C9_BoundSessionCloses ==
    \A s \in SessionIds :
        (BindersOf(s) # {}) ~>
            (/\ wpc[s] = "done"
             /\ closes[s] # <<>>
             /\ Last(closes[s]).conn \in BindersOf(s))

\* C10: a bind whose session id is not in the registry ends at the return of
\* line 169 with the registry, every bound channel, every connection's frames
\* and every coordinator as they were; nothing is ever sent on that connection
\* and no session is attached to it.
C10_UnknownBindDropped ==
    /\ [][\A c \in Conns :
            (/\ bpc[c] = "L167"
             /\ bmsg[c].SessionID \notin DOMAIN terminalSessions
             /\ bpc'[c] # bpc[c])
            => /\ bpc'[c] = "ret169"
               /\ UNCHANGED <<terminalSessions, signals, boundClosed, outbox, wpc, wchan>>]_vars
    /\ [](\A c \in Conns :
            bpc[c] = "ret169" =>
                /\ outbox[c] = <<>>
                /\ \A s \in DOMAIN terminalSessions :
                        terminalSessions[s].sockJSSession # c)

\* A bind with an unknown id was dropped while a coordinator waits for its bind.
C10_Witness ==
    \E c \in Conns, s \in SessionIds :
        /\ bpc[c] = "ret169"
        /\ wpc[s] = "select"
        /\ terminalSessions[s].sockJSSession = Nil

\* The returns of lines 154, 159 and 164: the handshake was given up.
AbortedPcs == {"ret154", "ret159", "ret164"}

\* C11: the step in which a binder takes a first message it cannot receive,
\* cannot decode or whose Op is not "bind" changes nothing but that binder:
\* the registry, every bound channel, every coordinator and every frame queue
\* and sizeChan stay as they were; afterwards no session holds that connection
\* and nothing was sent on it.
C11_BadFirstMessageDropped ==
    /\ [][\A c \in Conns :
            (bpc[c] = "new" /\ bpc'[c] \in AbortedPcs)
            => UNCHANGED <<terminalSessions, signals, boundClosed, outbox, wpc,
                           wchan, launches, closes, events, crashed,
                           sizeChan, sizesOut>>]_vars
    /\ [](\A c \in Conns :
            bpc[c] \in AbortedPcs =>
                /\ outbox[c] = <<>>
                /\ \A s \in DOMAIN terminalSessions :
                        terminalSessions[s].sockJSSession # c)

\* One connection's first message had an Op other than "bind" and another's
\* could not be decoded, while a registered session waits for its bind.
C11_Witness ==
    \E c, d \in Conns, s \in SessionIds :
        /\ bpc[c] = "ret164"
        /\ bpc[d] = "ret159"
        /\ wpc[s] = "select"
        /\ s \in DOMAIN terminalSessions
        /\ terminalSessions[s].sockJSSession = Nil
        /\ signals[s] = 0

\* A step on session a: a step of its request, of its coordinator, or of a
\* binder whose message names it.
StepOn(a) ==
    \/ hpc'[a] # hpc[a]
    \/ wpc'[a] # wpc[a]
    \/ \E c \in Conns :
            /\ bpc'[c] # bpc[c]
            /\ a \in {bmsg[c].SessionID, bmsg'[c].SessionID}

\* Session b is registered and its coordinator has not finished.
InProgress(b) == wpc[b] \in {"L254", "select", "L255", "launch", "stream", "L275", "L279"}

\* C12: a step on session a leaves every other session b as it was (its
\* registry entry, its bound channel, its coordinator and what that did) and,
\* when b is in progress, leaves the process running, so that b can go on.
C12_SessionsIsolated ==
    [][\A a, b \in IsoIds :
            (a # b /\ StepOn(a))
            => /\ (b \in DOMAIN terminalSessions') = (b \in DOMAIN terminalSessions)
               /\ Lookup(terminalSessions', b) = Lookup(terminalSessions, b)
               /\ UNCHANGED <<hpc[b], wpc[b], wchan[b], signals[b], boundClosed[b],
                              launches[b], closes[b], events[b]>>
               /\ (InProgress(b) => ~crashed')]_vars

\* The request of session s named no valid shell: the coordinator falls back.
Fallback(s) == hpc[s] = "done" /\ shell[s] \notin {"bash", "sh"}

\* C13: in fallback the attempts are bash then sh, and an attempt is followed
\* by the next shell only when it failed to start: a shell that was started
\* and streamed (whatever its stream ended with) is the last attempt, so no
\* session has more than one process.
C13_FallbackStopsAtFirstStart ==
    \A s \in SessionIds :
        Fallback(s) =>
            /\ \A i \in DOMAIN launches[s] : launches[s][i].cmd = ValidShells[i]
            /\ \A i \in DOMAIN launches[s] :
                    (/\ i < Len(launches[s])
                     /\ launches[s][i].conn # Nil
                     /\ launches[s][i + 1].conn # Nil)
                    => launches[s][i].res = StartError(launches[s][i].cmd)

\* The request of session s named a valid shell.
Direct(s) == hpc[s] = "done" /\ shell[s] \in {"bash", "sh"}

\* C14: for a valid requested shell the coordinator calls startProcess at most
\* once, with that shell as the command, and when it calls Close it has made
\* exactly that one attempt and closes by its result: status 1 "Process
\* exited" after nil, status 2 with the error text after an error.
C14_ValidShellSingleAttempt ==
    \A s \in SessionIds :
        Direct(s) =>
            /\ Len(launches[s]) <= 1
            /\ \A i \in DOMAIN launches[s] : launches[s][i].cmd = shell[s]
            /\ Len(closes[s]) <= 1
            /\ closes[s] # <<>> =>
                    /\ Len(launches[s]) = 1
                    /\ IF launches[s][1].res = NoErr
                       THEN /\ closes[s][1].status = 1
                            /\ closes[s][1].reason = "Process exited"
                       ELSE /\ closes[s][1].status = 2
                            /\ closes[s][1].reason = launches[s][1].res

\* The request asked for sh, sh could not be started, and the session was
\* closed with that error after the single attempt.
C14_Witness ==
    \E s \in SessionIds :
        /\ shell[s] = "sh"
        /\ wpc[s] = "done"
        /\ Len(launches[s]) = 1
        /\ launches[s][1].cmd = "sh"
        /\ launches[s][1].res = "sh: cannot start"
        /\ Len(closes[s]) = 1
        /\ closes[s][1].status = 2

\* C19: in fallback an attempt that returned nil is the last one, and a Close
\* call goes by the last attempt alone: status 1 "Process exited" when it
\* returned nil; else every shell was tried, the last was sh, and Close gets
\* status 2 with the error text of sh, not of bash.
C19_CloseByLastAttempt ==
    \A s \in SessionIds :
        Fallback(s) =>
            /\ \A i \in DOMAIN launches[s] :
                    launches[s][i].res = NoErr => i = Len(launches[s])
            /\ closes[s] # <<>> =>
                    /\ Len(closes[s]) = 1
                    /\ launches[s] # <<>>
                    /\ LET last == launches[s][Len(launches[s])] IN
                        IF last.res = NoErr
                        THEN /\ closes[s][1].status = 1
                             /\ closes[s][1].reason = "Process exited"
                        ELSE /\ Len(launches[s]) = Len(ValidShells)
                             /\ last.cmd = "sh"
                             /\ last.res \in {StartError("sh"), StreamError("sh")}
                             /\ closes[s][1].status = 2
                             /\ closes[s][1].reason = last.res

\* Both shells were tried and ended with different errors; the session was
\* closed with the error of sh.
C19_Witness ==
    \E s \in SessionIds :
        /\ Fallback(s)
        /\ wpc[s] = "done"
        /\ Len(launches[s]) = 2
        /\ launches[s][1].res = "bash: cannot start"
        /\ launches[s][2].res = "sh: stream error"
        /\ closes[s] # <<>>
        /\ closes[s][1].reason = "sh: stream error"

\* C20: a coordinator started with an id that was never registered stays at
\* its select for ever: the channel it waits on is nil, it calls neither
\* startProcess nor Close, and the registry gets no entry for the id.
C20_UnregisteredCoordinatorBlocks ==
    \A s \in SessionIds :
        hpc[s] = "never" =>
            /\ wpc[s] \in {"L254", "select"}
            /\ wchan[s] = Nil
            /\ launches[s] = <<>>
            /\ closes[s] = <<>>
            /\ events[s] = <<>>
            /\ signals[s] = 0
            /\ ~boundClosed[s]
            /\ s \notin DOMAIN terminalSessions

\* The coordinator of an unregistered id waits at its select, and a bind that
\* found no session was dropped.
C20_Witness ==
    \E s \in SessionIds, c \in Conns :
        /\ hpc[s] = "never"
        /\ wpc[s] = "select"
        /\ bpc[c] = "ret169"

\* A log entry of a Read that got a resize message, and of a Read that got
\* nothing it has a case for.
IsResizeRead(e) == e.by = "read" /\ e.msg.kind = "json" /\ e.msg.Op = "resize"
IsStdinRead(e) == e.by = "read" /\ e.msg.kind = "json" /\ e.msg.Op = "stdin"
IsBadRead(e) == e.by = "read" /\ ~IsResizeRead(e) /\ ~IsStdinRead(e)
ResizeReads == SelectSeq(log, IsResizeRead)
StdinReads == SelectSeq(log, IsStdinRead)
Returned(q) == Cardinality({k \in DOMAIN q : q[k].err # "pending"})

RECURSIVE Concat(_)
Concat(q) == IF q = <<>> THEN <<>> ELSE Head(q) \o Concat(Tail(q))
\* The data of the stdin messages that arrived after the bind, and the bytes
\* the Read calls of attempt i returned.
ArrivedBytes == Concat([k \in DOMAIN StdinReads |-> StdinReads[k].msg.Data])
ReturnedBytes(i) ==
    Concat([k \in DOMAIN StdinReads |->
                IF StdinReads[k].att = i
                THEN SubSeq(StdinReads[k].msg.Data, 1, StdinReads[k].n)
                ELSE <<>>])

\* C16: when the session has been closed after its last process ran and
\* exited, the bytes the Read calls of that process's stream returned are,
\* in order, all the data of the stdin messages that arrived.
C16_StdinDelivered ==
    LET n == Len(launches[StreamId]) IN
        (/\ wpc[StreamId] = "done"
         /\ n > 0
         /\ launches[StreamId][n].res = NoErr)
        => ReturnedBytes(n) = ArrivedBytes

\* C17: a Read whose Recv failed, whose message could not be decoded or whose
\* Op is neither stdin nor resize returns 0 and an error, and the step puts
\* nothing on sizeChan and leaves Read at no send.
C17_ReadRejects ==
    /\ [](\A k \in DOMAIN log :
            IsBadRead(log[k]) => log[k].n = 0 /\ log[k].err \notin {NoErr, "pending"})
    /\ [][\A i \in Attempts :
            (/\ ReadOf(i).pc = "recv"
             /\ ReadOf(i)'.pc # "recv"
             /\ IsBadRead(log'[Len(log')]))
            => /\ UNCHANGED <<sizeChan, sizesOut, buf>>
               /\ ReadOf(i)'.pc # "send"]_vars

\* A resize was queued, and then a Read got a toast message: it returned an
\* error and the queue still holds the one size.
C17_Witness ==
    /\ \E j, k \in DOMAIN log :
        /\ j < k
        /\ IsResizeRead(log[j]) /\ log[j].err = NoErr
        /\ IsBadRead(log[k]) /\ log[k].msg.Op = "toast"
        /\ log[k].err = "unknown message type"
    /\ sizeChan = <<[Width |-> 80, Height |-> 24]>>
    /\ sizesOut = <<>>

\* C18: of the messages of a connection the binder receives the first and
\* no other, whatever it does with it; nobody receives before the binder,
\* and every later message is received by Read.
C18_BinderTakesFirstOnly ==
    /\ \A k \in DOMAIN log : log[k].by = "binder" => k = 1
    /\ \A k \in DOMAIN log : k > 1 => log[k].by = "read"
    /\ bpc[StreamConn] = "new" => log = <<>>
    /\ bpc[StreamConn] # "new" => log # <<>> /\ log[1].by = "binder"

\* The connection was bound by its first message and Read received two more.
C18_Witness ==
    /\ bpc[StreamConn] = "ret175"
    /\ Len(log) = 3
    /\ log[1].by = "binder" /\ log[1].msg.Op = "bind"
    /\ log[2].by = "read" /\ log[2].msg.Op = "stdin"
    /\ log[3].by = "read" /\ log[3].msg.Op = "resize"

====
